---- MODULE Spec2Model ----
(***************************************************************************)
(* Model of frame_auto_date_title.py: the batch runner process_folder, the *)
(* text wrapper wrap_text and the frame compositor add_frame_date_title.    *)
(*                                                                         *)
(* The specifications share the variables:                                 *)
(*   Spec      - one call of process_folder, one loop iteration per step   *)
(*   SpecWrap  - wrap_text applied to a text, then to its joined lines     *)
(*   SpecFrame - add_frame_date_title applied to one image                 *)
(*   SpecSave  - save_with_quality_preserved applied to one source path    *)
(*   SpecTitle - read_title applied to one image and its sidecar           *)
(*   SpecDate  - read_exif_date applied to one image file                  *)
(*   SpecGui   - the FrameApp window: Run, worker, scan and queue polling  *)
(***************************************************************************)
EXTENDS Integers, Sequences, FiniteSets, TLC

VARIABLES
    \* ---- process_folder ----
    pc,          \* "start" | "loop" | "returned" | "raised" | "idle"
    inDirKind,   \* in_dir on disk: "missing" | "file" | "dir" | "noperm"
    outDirKind,  \* out_dir on disk: "missing" | "file" | "dir"
    entries,     \* what in_dir.iterdir() yields: set of [name, isDir]
    overrides,   \* metadata_overrides: function path -> <<date, title>>
    hasProgress, \* progress_cb is not None
    hasLog,      \* log_cb is not None
    files,       \* local `files`
    total,       \* local `total`
    success,     \* local `success`
    idx,         \* index of the next loop iteration (1-based)
    progCalls,   \* invocations of progress_cb, in order
    logCalls,    \* invocations of log_cb, in order
    stdout,      \* lines given to print()
    logger,      \* messages given to LOGGER.error
    metaRead,    \* file -> <<date, title>> read from its EXIF/XMP metadata
    handed,      \* file -> <<date, title>> given to add_frame_date_title
    outcome,     \* file -> stage that raised, or "ok"
    outFiles,    \* out_dir content: output name -> [src, complete]
    fsTouched,   \* out_dir was created, in_dir listed or a file opened
    outDir0,     \* out_dir on disk when process_folder was called
    outFiles0,   \* out_dir content when process_folder was called
    error,       \* exception leaving process_folder: "none" | "ValueError" |
                 \* "OSError" | "ProgressCbError" | "LogCbError" | "FileError"
    result,      \* returned <<success, total>>
    \* ---- wrap_text ----
    wPc, wFont, wText, wWidth, wLines, wAgain,
    \* ---- add_frame_date_title ----
    fPc, fIn, fOut,
    \* ---- save_with_quality_preserved ----
    svPc,        \* "start" | "saved" | "raised" | "idle"
    svIn,        \* arguments: src_path name, out_dir, src_image.info
    svWritten,   \* the framed.save call: path, format and keyword arguments
    svReturned,  \* the returned path
    \* ---- read_title ----
    tPc,         \* "start" | "done" | "idle"
    tIn,         \* the sidecar file and the image file on disk
    tOut,        \* what the call gave: value, raised, warnings logged
    \* ---- read_exif_date ----
    dPc,         \* "start" | "done" | "idle"
    dIn,         \* the file and its two timestamp fields
    dOut,        \* what the call gave: value, raised, warned
    \* ---- FrameApp (frame_gui.py) ----
    gPc,         \* "live" once the window is built | "idle"
    gThreads,    \* batch worker threads started, in order: [pos, total, done]
    gWorkerRef,  \* self.worker_thread: 0 for None, else index in gThreads
    gScan,       \* self.scan_thread: "none" | "listing" | "reading" |
                 \* "closing" | "dead"
    gQueue,      \* self.messages
    gRunBtn,     \* state of run_button
    gScanBtn,    \* state of scan_button
    gStatus,     \* status_var
    gLog,        \* number of lines in the log widget
    gTrace,      \* <<worker, k>>: worker processed the k-th file of its run
    gRunCalls,   \* calls of _run so far
    gLastRun,    \* how the latest call of _run ended
    gScans       \* scan threads started so far

batchVars == <<pc, inDirKind, outDirKind, entries, overrides, hasProgress,
               hasLog, files, total, success, idx, progCalls, logCalls,
               stdout, logger, metaRead, handed, outcome, outFiles,
               fsTouched, outDir0, outFiles0, error, result>>
wrapVars  == <<wPc, wFont, wText, wWidth, wLines, wAgain>>
frameVars == <<fPc, fIn, fOut>>
saveVars  == <<svPc, svIn, svWritten, svReturned>>
titleVars == <<tPc, tIn, tOut>>
dateVars  == <<dPc, dIn, dOut>>
guiVars   == <<gPc, gThreads, gWorkerRef, gScan, gQueue, gRunBtn, gScanBtn,
               gStatus, gLog, gTrace, gRunCalls, gLastRun, gScans>>
vars      == <<batchVars, wrapVars, frameVars, saveVars, titleVars, dateVars,
               guiVars>>

\* the variables the steps of each specification leave alone
notBatch == <<wrapVars, frameVars, saveVars, titleVars, dateVars, guiVars>>
notWrap  == <<batchVars, frameVars, saveVars, titleVars, dateVars, guiVars>>
notFrame == <<batchVars, wrapVars, saveVars, titleVars, dateVars, guiVars>>
notSave  == <<batchVars, wrapVars, frameVars, titleVars, dateVars, guiVars>>
notTitle == <<batchVars, wrapVars, frameVars, saveVars, dateVars, guiVars>>
notDate  == <<batchVars, wrapVars, frameVars, saveVars, titleVars, guiVars>>
notGui   == <<batchVars, wrapVars, frameVars, saveVars, titleVars, dateVars>>

Max(a, b) == IF a >= b THEN a ELSE b

None == "None"

----------------------------------------------------------------------------
(* File names.  A name is a tuple of one-character strings so that the     *)
(* suffix, its lower-casing and the sort order are computed, not assumed.  *)

Ord(c) ==
    CASE c = "." -> 46
      [] c = "A" -> 65 [] c = "G" -> 71 [] c = "J" -> 74 [] c = "P" -> 80
      [] c = "a" -> 97 [] c = "b" -> 98 [] c = "e" -> 101 [] c = "f" -> 102
      [] c = "g" -> 103 [] c = "i" -> 105 [] c = "j" -> 106 [] c = "n" -> 110
      [] c = "p" -> 112 [] c = "s" -> 115 [] c = "t" -> 116 [] c = "x" -> 120

\* str.lower() on one character
LowerChar(c) ==
    CASE c = "A" -> "a" [] c = "G" -> "g" [] c = "J" -> "j" [] c = "P" -> "p"
      [] c = "F" -> "f" [] c = "I" -> "i" [] c = "N" -> "n" [] c = "T" -> "t"
      [] OTHER -> c

Lower(s) == [i \in 1..Len(s) |-> LowerChar(s[i])]

\* position of the last "." in a name, 0 if there is none
LastDot(s) ==
    LET dots == {i \in 1..Len(s) : s[i] = "."}
    IN  IF dots = {} THEN 0 ELSE CHOOSE i \in dots : \A j \in dots : j <= i

\* PurePath.suffix: from the last dot, unless that dot leads or ends the name
Suffix(s) ==
    LET d == LastDot(s)
    IN  IF d > 1 /\ d < Len(s) THEN SubSeq(s, d, Len(s)) ELSE <<>>

\* PurePath.stem
Stem(s) ==
    LET d == LastDot(s)
    IN  IF d > 1 /\ d < Len(s) THEN SubSeq(s, 1, d - 1) ELSE s

\* PurePath.with_suffix(ext).name
WithSuffix(s, ext) == Stem(s) \o ext

\* s < t as Python compares str: code point by code point, prefix first
RECURSIVE StrLess(_, _)
StrLess(s, t) ==
    IF t = <<>> THEN FALSE
    ELSE IF s = <<>> THEN TRUE
    ELSE IF Ord(Head(s)) # Ord(Head(t)) THEN Ord(Head(s)) < Ord(Head(t))
    ELSE StrLess(Tail(s), Tail(t))

\* sorted(names): ascending sequence of the members of a set of names
RECURSIVE Sorted(_)
Sorted(S) ==
    IF S = {} THEN <<>>
    ELSE LET m == CHOOSE x \in S : \A y \in S \ {x} : StrLess(x, y)
         IN  <<m>> \o Sorted(S \ {m})

JPG  == <<".", "j", "p", "g">>
JPEG == <<".", "j", "p", "e", "g">>
TIF  == <<".", "t", "i", "f">>
TIFF == <<".", "t", "i", "f", "f">>
PNG  == <<".", "p", "n", "g">>

\* exts in process_folder
exts == {JPG, JPEG, TIF, TIFF, PNG}

\* The directory entries the model draws in_dir from.
DirUniverse ==
    { [name |-> <<"A", ".", "J", "P", "G">>,      isDir |-> FALSE],
      [name |-> <<"a", ".", "j", "p", "e", "g">>, isDir |-> FALSE],
      [name |-> <<"a", ".", "j", "p", "g">>,      isDir |-> FALSE],
      [name |-> <<"b", ".", "t", "i", "f", "f">>, isDir |-> FALSE],
      [name |-> <<"n", ".", "t", "x", "t">>,      isDir |-> FALSE],
      [name |-> <<"s", ".", "p", "n", "g">>,      isDir |-> TRUE] }

Names == {e.name : e \in DirUniverse}

\* most entries in_dir holds
MaxEntries == 2

\* A path is <<directory, name>>; "in" stands for in_dir.
InPath(n) == <<"in", n>>

\* The metadata_overrides arguments the model draws from: none, an entry
\* for in_dir/a.jpg with two empty strings or with two texts, and an entry
\* for a file of the same name as an enumerated one in another directory.
OverrideMaps ==
    { <<>>,
      InPath(<<"a", ".", "j", "p", "g">>) :> <<"", "">>,
      InPath(<<"a", ".", "j", "p", "g">>) :> <<"2020-01-01", "Override Title">>,
      <<"other", <<"a", ".", "j", "p", "e", "g">> >> :> <<"2020-01-01", "Override Title">> }

\* what (read_exif_date(p) or "", read_title(p) or "") can give
MetaPairs == { <<"", "">>, <<"2021-07-04", "My Trip">> }

\* the suffix tests without .lower()
OutNameCaseSensitive(n) ==
    LET suffix == Suffix(n)
    IN  IF suffix \in {JPG, JPEG} THEN WithSuffix(n, JPG)
        ELSE IF suffix \in {TIF, TIFF} THEN WithSuffix(n, TIF)
        ELSE IF suffix = PNG THEN WithSuffix(n, PNG)
        ELSE WithSuffix(n, JPG)

\* save_with_quality_preserved: name of the file written for source name n
OutName(n) ==
    LET suffix == Lower(Suffix(n))
    IN  IF suffix \in {JPG, JPEG} THEN WithSuffix(n, JPG)
        ELSE IF suffix \in {TIF, TIFF} THEN WithSuffix(n, TIF)
        ELSE IF suffix = PNG THEN WithSuffix(n, PNG)
        ELSE WithSuffix(n, JPG)

\* files = [p for p in sorted(in_dir.iterdir()) if p.suffix.lower() in exts]
ListFiles(es) ==
    Sorted({e.name : e \in {x \in es : Lower(Suffix(x.name)) \in exts}})

IsDirEntry(n) == \E e \in entries : e.name = n /\ e.isDir

----------------------------------------------------------------------------
(* process_folder *)

\* What out_dir may hold before the batch: nothing, or a complete a.jpg
\* that no source of this batch produced (src is the empty name).
OutDirContents ==
    { <<>>,
      <<"a", ".", "j", "p", "g">> :> [src |-> <<>>, complete |-> TRUE] }

\* a file already present under the output name is left as it is
WriteOutputKeepExisting(fs, out, p, complete) ==
    IF out \in DOMAIN fs THEN fs
    ELSE (out :> [src |-> p, complete |-> complete]) @@ fs

\* framed.save(out_path, ...) opens out_path for writing: the file under
\* that name, present or not, becomes what this save wrote
WriteOutput(fs, out, p, complete) ==
    (out :> [src |-> p, complete |-> complete]) @@ fs

SavedLine(p) == [kind |-> "Saved", file |-> p, out |-> OutName(p)]
FailMsg(p)   == [kind |-> "Failed", file |-> p]
ErrorLine(p) == [kind |-> "ERROR", file |-> p]
DoneLine(t, s) == [kind |-> "Done", processed |-> t, succeeded |-> s,
                   failed |-> t - s]

InitBatch ==
    /\ pc = "start"
    /\ inDirKind \in {"missing", "file", "dir", "noperm"}
    /\ outDirKind \in {"missing", "file", "dir"}
    /\ entries \in {es \in SUBSET DirUniverse : Cardinality(es) <= MaxEntries}
    /\ overrides \in OverrideMaps
    /\ hasProgress \in BOOLEAN
    /\ hasLog \in BOOLEAN
    /\ files = <<>>
    /\ total = 0
    /\ success = 0
    /\ idx = 1
    /\ progCalls = <<>>
    /\ logCalls = <<>>
    /\ stdout = <<>>
    /\ logger = <<>>
    /\ metaRead = <<>>
    /\ handed = <<>>
    /\ outcome = <<>>
    /\ outFiles \in IF outDirKind = "dir" THEN OutDirContents ELSE {<<>>}
    /\ outFiles0 = outFiles
    /\ fsTouched = FALSE
    /\ outDir0 = outDirKind
    /\ error = "none"
    /\ result = None

IdleBatch ==
    /\ pc = "idle"
    /\ inDirKind = "missing" /\ outDirKind = "missing"
    /\ entries = {} /\ overrides = <<>>
    /\ hasProgress = FALSE /\ hasLog = FALSE
    /\ files = <<>> /\ total = 0 /\ success = 0 /\ idx = 1
    /\ progCalls = <<>> /\ logCalls = <<>> /\ stdout = <<>> /\ logger = <<>>
    /\ metaRead = <<>> /\ handed = <<>> /\ outcome = <<>> /\ outFiles = <<>>
    /\ fsTouched = FALSE /\ outDir0 = "missing" /\ outFiles0 = <<>>
    /\ error = "none" /\ result = None

InvalidInputMissingOnly(kind) == kind = "missing"

\* not in_dir.exists() or not in_dir.is_dir()
InvalidInput(kind) == kind \notin {"dir", "noperm"}

\* out_dir.mkdir(parents=True, exist_ok=True) raises when out_dir is a file
MkdirRaises(kind) == kind = "file"

\* in_dir.iterdir() raises when in_dir cannot be listed
IterdirRaises(kind) == kind # "dir"

\* if metadata_overrides: override = metadata_overrides.get(p)
OverrideFor(ovr, p) ==
    IF ovr # <<>> /\ InPath(p) \in DOMAIN ovr THEN ovr[InPath(p)] ELSE None

\* the read happens only on the else branch of `if override is not None`
ReadsMeta(override) == override = None

ChooseMetaPartial(override, m) ==
    IF override = None THEN m
    ELSE << IF override[1] # "" THEN override[1] ELSE m[1],
            IF override[2] # "" THEN override[2] ELSE m[2] >>

\* date_str, title = override   /   read_exif_date(p) or "", read_title(p) or ""
ChooseMeta(override, m) ==
    IF override # None THEN override ELSE m

\* what can go wrong inside the with-block for file p ("none": nothing)
Stages(p) ==
    IF IsDirEntry(p) THEN {"open"} ELSE {"none", "open", "compose", "save"}

\* success += 1 is the first statement after the with-block
SuccessAfter(s, fail) == IF fail = "none" THEN s + 1 ELSE s

ProgressAfterSuccessOnly(calls, has, i, t, p, fail) ==
    IF has /\ fail = "none" THEN Append(calls, <<i, t, p>>) ELSE calls

\* finally: if progress_cb: progress_cb(idx, total, p)
ProgressAfter(calls, has, i, t, p, fail) ==
    IF has THEN Append(calls, <<i, t, p>>) ELSE calls

StdoutAfterWithErrors(out, has, p, fail) ==
    IF has THEN out
    ELSE Append(out, IF fail = "none" THEN SavedLine(p) ELSE ErrorLine(p))

\* else: print(msg) after a saved file; the except branch never prints
StdoutAfter(out, has, p, fail) ==
    IF fail = "none" /\ ~has THEN Append(out, SavedLine(p)) ELSE out

EscapesUncaught(fail, errRaised, progRaised) ==
    fail # "none" \/ errRaised \/ progRaised

\* an exception leaves the loop only from the except handler's log_cb call
\* or from the finally block's progress_cb call
Escapes(fail, errRaised, progRaised) == errRaised \/ progRaised

\* lines 296-307
Start ==
    /\ pc = "start"
    /\ UNCHANGED <<inDirKind, entries, overrides, hasProgress, hasLog,
                   success, idx, logCalls, stdout, logger, metaRead, handed,
                   outcome, outFiles, outDir0, outFiles0, result>>
    /\ IF InvalidInput(inDirKind)
       THEN /\ pc' = "raised"
            /\ error' = "ValueError"
            /\ UNCHANGED <<outDirKind, files, total, progCalls, fsTouched>>
       ELSE IF MkdirRaises(outDirKind)
       THEN /\ pc' = "raised"
            /\ error' = "OSError"
            /\ UNCHANGED <<outDirKind, files, total, progCalls, fsTouched>>
       ELSE /\ outDirKind' = "dir"
            /\ fsTouched' = TRUE
            /\ IF IterdirRaises(inDirKind)
               THEN /\ pc' = "raised"
                    /\ error' = "OSError"
                    /\ UNCHANGED <<files, total, progCalls>>
               ELSE /\ files' = ListFiles(entries)
                    /\ total' = Len(files')
                    /\ IF hasProgress
                       THEN /\ progCalls' = <<<<0, total', None>>>>
                            /\ \E raises \in BOOLEAN :
                                 IF raises
                                 THEN pc' = "raised" /\ error' = "ProgressCbError"
                                 ELSE pc' = "loop" /\ UNCHANGED error
                       ELSE /\ pc' = "loop"
                            /\ UNCHANGED <<progCalls, error>>

\* lines 309-351: one iteration of the for loop
ProcessFile ==
    /\ pc = "loop"
    /\ idx <= total
    /\ UNCHANGED <<inDirKind, outDirKind, entries, overrides, hasProgress,
                   hasLog, files, total, outDir0, outFiles0, result>>
    /\ LET p == files[idx]
           override == OverrideFor(overrides, p)
       IN  \E m \in MetaPairs, fail \in Stages(p),
              partial \in BOOLEAN, r1 \in BOOLEAN, r2 \in BOOLEAN,
              r3 \in BOOLEAN :
           LET meta        == ChooseMeta(override, m)
               ok          == fail = "none"
               savedRaised == ok /\ hasLog /\ r1
               inExcept    == ~ok \/ savedRaised
               errRaised   == inExcept /\ hasLog /\ r2
               progRaised  == hasProgress /\ r3
               out         == OutName(p)
           IN  /\ metaRead' = IF ReadsMeta(override) THEN (p :> m) @@ metaRead
                              ELSE metaRead
               /\ fsTouched' = TRUE
               /\ handed' = IF fail # "open" THEN (p :> meta) @@ handed
                            ELSE handed
               /\ outcome' = (p :> fail) @@ outcome
               /\ outFiles' =
                    IF ok THEN WriteOutput(outFiles, out, p, TRUE)
                    ELSE IF fail = "save" /\ partial
                    THEN WriteOutput(outFiles, out, p, FALSE)
                    ELSE outFiles
               /\ success' = SuccessAfter(success, fail)
               /\ logCalls' = logCalls
                                \o (IF ok /\ hasLog THEN <<SavedLine(p)>> ELSE <<>>)
                                \o (IF inExcept /\ hasLog THEN <<ErrorLine(p)>> ELSE <<>>)
               /\ stdout' = StdoutAfter(stdout, hasLog, p, fail)
               /\ logger' = IF inExcept THEN Append(logger, FailMsg(p)) ELSE logger
               /\ progCalls' = ProgressAfter(progCalls, hasProgress, idx, total, p, fail)
               /\ IF Escapes(fail, errRaised, progRaised)
                  THEN /\ pc' = "raised"
                       /\ error' = IF progRaised THEN "ProgressCbError"
                                   ELSE IF errRaised THEN "LogCbError"
                                   ELSE "FileError"
                       /\ UNCHANGED idx
                  ELSE pc' = "loop" /\ idx' = idx + 1 /\ UNCHANGED error

\* lines 353-358
Finish ==
    /\ pc = "loop"
    /\ idx > total
    /\ UNCHANGED <<inDirKind, outDirKind, entries, overrides, hasProgress,
                   hasLog, files, total, success, idx, progCalls, logger,
                   metaRead, handed, outcome, outFiles, fsTouched, outDir0,
                   outFiles0>>
    /\ IF hasLog
       THEN /\ logCalls' = Append(logCalls, DoneLine(total, success))
            /\ UNCHANGED stdout
            /\ \E raises \in BOOLEAN :
                 IF raises
                 THEN pc' = "raised" /\ error' = "LogCbError" /\ UNCHANGED result
                 ELSE pc' = "returned" /\ result' = <<success, total>> /\ UNCHANGED error
       ELSE /\ stdout' = Append(stdout, DoneLine(total, success))
            /\ pc' = "returned"
            /\ result' = <<success, total>>
            /\ UNCHANGED <<logCalls, error>>

IdleWrap ==
    /\ wPc = "idle" /\ wFont = <<>> /\ wText = <<>> /\ wWidth = 0
    /\ wLines = <<>> /\ wAgain = <<>>

IdleFrame == fPc = "idle" /\ fIn = <<>> /\ fOut = <<>>

IdleSave ==
    svPc = "idle" /\ svIn = <<>> /\ svWritten = <<>> /\ svReturned = None

IdleTitle == tPc = "idle" /\ tIn = <<>> /\ tOut = <<>>

IdleDate == dPc = "idle" /\ dIn = <<>> /\ dOut = <<>>

IdleGui ==
    /\ gPc = "idle" /\ gThreads = <<>> /\ gWorkerRef = 0 /\ gScan = "none"
    /\ gQueue = <<>> /\ gRunBtn = "normal" /\ gScanBtn = "normal"
    /\ gStatus = "Ready" /\ gLog = 0 /\ gTrace = <<>> /\ gRunCalls = 0
    /\ gLastRun = "none" /\ gScans = 0

\* the variables of the specifications other than Spec, at rest
IdleRest ==
    IdleWrap /\ IdleFrame /\ IdleSave /\ IdleTitle /\ IdleDate /\ IdleGui

Init == InitBatch /\ IdleRest

Next ==
    \/ Start /\ UNCHANGED notBatch
    \/ ProcessFile /\ UNCHANGED notBatch
    \/ Finish /\ UNCHANGED notBatch

Spec == Init /\ [][Next]_vars

----------------------------------------------------------------------------
(* wrap_text.  A text is a tuple of one-character strings.  draw.textlength *)
(* belongs to the imaging library: a font here gives every character an     *)
(* advance width and some ordered character pairs a kerning adjustment, so  *)
(* that the measured width of a text is not simply additive.                *)

Letters    == {"i", "W"}
Whitespace == {" ", "\n"}
Alphabet   == Letters \cup Whitespace

Fonts ==
    { [adv  |-> [c \in Alphabet |-> CASE c = "i" -> 1 [] c = "W" -> 3
                                      [] c = " " -> 1 [] c = "\n" -> 0],
       kern |-> [q \in Alphabet \X Alphabet |-> 0]],
      [adv  |-> [c \in Alphabet |-> CASE c = "i" -> 2 [] c = "W" -> 2
                                      [] c = " " -> 1 [] c = "\n" -> 0],
       kern |-> [q \in Alphabet \X Alphabet |->
                    IF q = <<"W", "i">> THEN -1 ELSE 0]] }

\* longest text wrapped
MaxLen == 4

\* largest max_width
MaxWidth == 4

Texts == UNION {[1..n -> Alphabet] : n \in 0..MaxLen}

\* draw.textlength(s, font=font)
RECURSIVE TextLength(_, _)
TextLength(s, font) ==
    IF s = <<>> THEN 0
    ELSE font.adv[Head(s)]
           + (IF Len(s) > 1 THEN font.kern[<<s[1], s[2]>>] ELSE 0)
           + TextLength(Tail(s), font)

\* text.split(): the maximal runs of non-whitespace characters, in order
RECURSIVE SplitWords(_, _, _)
SplitWords(text, words, current) ==
    IF text = <<>>
    THEN IF current = <<>> THEN words ELSE Append(words, current)
    ELSE IF Head(text) \in Whitespace
    THEN SplitWords(Tail(text),
                    IF current = <<>> THEN words ELSE Append(words, current),
                    <<>>)
    ELSE SplitWords(Tail(text), words, Append(current, Head(text)))

\* the for-loop of split_long_word over the rest of the word
RECURSIVE SplitLoop(_, _, _, _, _)
SplitLoop(rest, parts, current, font, max_width) ==
    IF rest = <<>>
    THEN IF current # <<>> THEN Append(parts, current) ELSE parts
    ELSE LET ch   == Head(rest)
             test == Append(current, ch)
         IN  IF current # <<>> /\ TextLength(test, font) > max_width
             THEN SplitLoop(Tail(rest), Append(parts, current), <<ch>>,
                            font, max_width)
             ELSE SplitLoop(Tail(rest), parts, test, font, max_width)

\* split_long_word(word)
SplitLongWord(word, font, max_width) ==
    IF TextLength(word, font) <= max_width THEN <<word>>
    ELSE SplitLoop(word, <<>>, <<>>, font, max_width)

\* normalized_words: every word replaced by its pieces
RECURSIVE NormalizedWords(_, _, _)
NormalizedWords(words, font, max_width) ==
    IF words = <<>> THEN <<>>
    ELSE SplitLongWord(Head(words), font, max_width)
           \o NormalizedWords(Tail(words), font, max_width)

RECURSIVE PackLoop(_, _, _, _, _)
PackLoop(rest, lines, line, font, max_width) ==
    IF rest = <<>> THEN Append(lines, line)
    ELSE LET w    == Head(rest)
             test == line \o <<" ">> \o w
         IN  IF TextLength(test, font) <= max_width
             THEN PackLoop(Tail(rest), lines, test, font, max_width)
             ELSE PackLoop(Tail(rest), Append(lines, line), w, font, max_width)

\* the loop measuring line + word without the separating space
RECURSIVE PackLoopNoSpace(_, _, _, _, _)
PackLoopNoSpace(rest, lines, line, font, max_width) ==
    IF rest = <<>> THEN Append(lines, line)
    ELSE LET w    == Head(rest)
             test == line \o <<" ">> \o w
         IN  IF TextLength(line \o w, font) <= max_width
             THEN PackLoopNoSpace(Tail(rest), lines, test, font, max_width)
             ELSE PackLoopNoSpace(Tail(rest), Append(lines, line), w, font, max_width)

PackLinesNoSpace(words, font, max_width) ==
    PackLoopNoSpace(Tail(words), <<>>, Head(words), font, max_width)

\* the loop without the final lines.append(line)
PackLinesLoseLast(words, font, max_width) ==
    LET all == PackLoop(Tail(words), <<>>, Head(words), font, max_width)
    IN  SubSeq(all, 1, Len(all) - 1)

\* lines 157-166: greedy packing of the normalized words (words # <<>>)
PackLines(words, font, max_width) ==
    PackLoop(Tail(words), <<>>, Head(words), font, max_width)

\* wrap_text(draw, text, font, max_width)
WrapText(text, font, max_width) ==
    IF max_width <= 0 THEN <<text>>
    ELSE LET words == SplitWords(text, <<>>, <<>>)
         IN  IF words = <<>> THEN << <<>> >>
             ELSE PackLines(NormalizedWords(words, font, max_width),
                            font, max_width)

\* " ".join(lines)
RECURSIVE Join(_)
Join(lines) ==
    IF lines = <<>> THEN <<>>
    ELSE IF Len(lines) = 1 THEN lines[1]
    ELSE lines[1] \o <<" ">> \o Join(Tail(lines))

InitWrap ==
    /\ wPc = "start"
    /\ wFont \in Fonts
    /\ wText \in Texts
    /\ wWidth \in -1..MaxWidth
    /\ wLines = <<>>
    /\ wAgain = <<>>

\* lines = wrap_text(draw, text, font, max_width)
Wrap ==
    /\ wPc = "start"
    /\ wLines' = WrapText(wText, wFont, wWidth)
    /\ wPc' = "wrapped"
    /\ UNCHANGED <<wFont, wText, wWidth, wAgain>>

\* again = wrap_text(draw, " ".join(lines), font, max_width)
Rewrap ==
    /\ wPc = "wrapped"
    /\ wAgain' = WrapText(Join(wLines), wFont, wWidth)
    /\ wPc' = "rewrapped"
    /\ UNCHANGED <<wFont, wText, wWidth, wLines>>

NextWrap ==
    \/ Wrap /\ UNCHANGED notWrap
    \/ Rewrap /\ UNCHANGED notWrap

InitSpecWrap ==
    IdleBatch /\ InitWrap /\ IdleFrame /\ IdleSave /\ IdleTitle /\ IdleDate
      /\ IdleGui

SpecWrap == InitSpecWrap /\ [][NextWrap]_vars

----------------------------------------------------------------------------
(* add_frame_date_title.  The image is its size and EXIF orientation; the  *)
(* heights of the "Ag" bounding boxes of the two fonts are measurements of  *)
(* the imaging library and are drawn as inputs.                             *)

\* raw (width, height) of the source images
ImageSizes == { <<4, 3>>, <<1, 2>> }

\* EXIF orientation values: 1 keeps the axes, 6 and 8 rotate by 90 degrees
Orientations == {1, 6}

Borders     == {0, 80}
BottomExtras == {0, 1, 10, 12, 240}
Pads        == {0, 1, 40}
DateFontSizes  == {60}
TitleFontSizes == {0, 13, 20, 80, 180}
BBoxHeights == {0, 5}

FrameDates  == { <<>>, <<" ">>, <<"i", "i">> }
FrameTitles == {t \in Texts : Len(t) <= 2}
                 \cup { <<"W", "i", " ", "i">>, <<"i", " ", "i", " ", "W">> }

\* str.strip()
RECURSIVE LStrip(_)
LStrip(t) ==
    IF t # <<>> /\ Head(t) \in Whitespace THEN LStrip(Tail(t)) ELSE t

RECURSIVE RStrip(_)
RStrip(t) ==
    IF t # <<>> /\ t[Len(t)] \in Whitespace
    THEN RStrip(SubSeq(t, 1, Len(t) - 1)) ELSE t

Strip(t) == RStrip(LStrip(t))

\* ImageOps.exif_transpose(img).size: orientations 5 to 8 swap the axes
TransposedSize(size, orientation) ==
    IF orientation \in 5..8 THEN <<size[2], size[1]>> ELSE size

\* line_height(draw, font) = max(1, bbox[3] - bbox[1])
LineHeight(bbox_h) == Max(1, bbox_h)

\* a power of two lies in lo..hi
HasPowerOfTwo(lo, hi) == \E k \in 0..30 : lo <= 2^k /\ 2^k <= hi

\* int(n * 0.35) in double precision.  The double nearest to 0.35 is below
\* 0.35, so the product is floor(35n/100) unless 35n/100 is an integer 7j
\* (n = 20j); then the rounded product is 7j when a power of two lies in
\* 4j..7j and the double just below 7j otherwise (n = 180 gives 62).
IntOfTimes035(n) ==
    LET j == n \div 20
    IN  IF n > 0 /\ n % 20 = 0 /\ ~HasPowerOfTwo(4 * j, 7 * j)
        THEN 7 * j - 1
        ELSE (35 * n) \div 100

\* int(n * 0.18) in double precision: floor(18n/100), the rounded product
\* of an n with 18n/100 an integer being that integer
IntOfTimes018(n) == (18 * n) \div 100

\* the product rounded to the nearest integer
GapRounded(font_size_title) == Max(4, (font_size_title * 35 + 50) \div 100)

\* gap = max(4, int(font_size_title * 0.35))
Gap(font_size_title) == Max(4, IntOfTimes035(font_size_title))

\* top_offset = max(0, int(bottom_extra_px * 0.18))
TopOffset(bottom_extra_px) == Max(0, IntOfTimes018(bottom_extra_px))

\* the title lines stacked without the gaps between them
TitleBlockHNoGaps(n, title_h, gap) == n * title_h

\* title_block_h (line 205)
TitleBlockH(n, title_h, gap) == n * title_h + Max(0, n - 1) * gap

\* the date line counted whether or not there is a date
ContentHAlwaysDate(top_offset, has_date, date_h, n, title_block_h, gap) ==
    top_offset
      + date_h + (IF n > 0 THEN gap ELSE 0)
      + title_block_h
      + Max(0, top_offset \div 2)

\* content_h (lines 207-213)
ContentH(top_offset, has_date, date_h, n, title_block_h, gap) ==
    top_offset
      + (IF has_date THEN date_h + (IF n > 0 THEN gap ELSE 0) ELSE 0)
      + title_block_h
      + Max(0, top_offset \div 2)

ActualBottomExtraContentOnly(bottom_extra_px, content_h) == content_h

\* actual_bottom_extra = max(bottom_extra_px, content_h)
ActualBottomExtra(bottom_extra_px, content_h) == Max(bottom_extra_px, content_h)

\* the draw.text calls of lines 229-232, starting at height y
RECURSIVE TitleDraws(_, _, _, _, _)
TitleDraws(lines, left, y, title_h, gap) ==
    IF lines = <<>> THEN <<>>
    ELSE <<[x |-> left, y |-> y, text |-> Head(lines), h |-> title_h]>>
           \o TitleDraws(Tail(lines), left, y + title_h + gap, title_h, gap)

\* add_frame_date_title(img, date_text, title, ...): everything it computes
AddFrameDateTitle(in) ==
    LET size        == TransposedSize(in.size, in.orientation)
        w           == size[1]
        h           == size[2]
        date_text   == Strip(in.date_text)
        title       == Strip(in.title)
        new_w       == w + in.border_px * 2
        left        == in.border_px + in.pad_px
        right       == in.border_px + w - in.pad_px
        text_max_w  == right - left
        gap         == Gap(in.font_size_title)
        top_offset  == TopOffset(in.bottom_extra_px)
        date_h      == LineHeight(in.date_bbox_h)
        title_h     == LineHeight(in.title_bbox_h)
        title_lines == IF title # <<>>
                       THEN WrapText(title, in.font, text_max_w) ELSE <<>>
        n           == Len(title_lines)
        title_block_h == TitleBlockH(n, title_h, gap)
        content_h   == ContentH(top_offset, date_text # <<>>, date_h, n,
                                title_block_h, gap)
        actual_bottom_extra == ActualBottomExtra(in.bottom_extra_px, content_h)
        new_h       == h + in.border_px * 2 + actual_bottom_extra
        y0          == in.border_px + h + top_offset
        date_draws  == IF date_text # <<>>
                       THEN <<[x |-> left, y |-> y0, text |-> date_text,
                               h |-> date_h]>>
                       ELSE <<>>
        y1          == IF date_text # <<>> THEN y0 + date_h + gap ELSE y0
    IN  [ w |-> w, h |-> h,
          text_max_w |-> text_max_w,
          gap |-> gap, top_offset |-> top_offset,
          date_h |-> date_h, title_h |-> title_h,
          title_lines |-> title_lines,
          content_h |-> content_h,
          actual_bottom_extra |-> actual_bottom_extra,
          canvas |-> <<new_w, new_h>>,
          paste |-> <<in.border_px, in.border_px>>,
          draws |-> date_draws \o TitleDraws(title_lines, left, y1, title_h, gap) ]

InitFrame ==
    /\ fPc = "start"
    /\ fIn \in [ size : ImageSizes, orientation : Orientations,
                 date_text : FrameDates, title : FrameTitles,
                 border_px : Borders, bottom_extra_px : BottomExtras,
                 pad_px : Pads, font_size_date : DateFontSizes,
                 font_size_title : TitleFontSizes,
                 date_bbox_h : BBoxHeights, title_bbox_h : BBoxHeights,
                 font : Fonts ]
    /\ fOut = <<>>

\* canvas = add_frame_date_title(img, ...)
Frame ==
    /\ fPc = "start"
    /\ fOut' = AddFrameDateTitle(fIn)
    /\ fPc' = "framed"
    /\ UNCHANGED fIn

NextFrame == Frame /\ UNCHANGED notFrame

InitSpecFrame ==
    IdleBatch /\ IdleWrap /\ InitFrame /\ IdleSave /\ IdleTitle /\ IdleDate
      /\ IdleGui

SpecFrame == InitSpecFrame /\ [][NextFrame]_vars

----------------------------------------------------------------------------
(* save_with_quality_preserved.  src_image.info gives the ICC profile and  *)
(* the raw EXIF block: None when absent, possibly empty bytes.              *)

SaveNames ==
    { <<"a", ".", "j", "p", "g">>,
      <<"A", ".", "J", "P", "G">>,
      <<"a", ".", "j", "p", "e", "g">>,
      <<"b", ".", "t", "i", "f">>,
      <<"b", ".", "T", "I", "F", "F">>,
      <<"c", ".", "p", "n", "g">>,
      <<"c", ".", "P", "N", "G">>,
      <<"d", ".", "h", "e", "i", "c">>,
      <<"e">>,
      <<"g", ".", "x", ".", "p", "n", "g">> }

OutDirs   == {"out", "o2"}
InfoBytes == {None, "", "bytes"}

\* the keyword arguments of framed.save for a lower-cased suffix
SaveKwargs(suffix, icc, exif) ==
    IF suffix \in {JPG, JPEG}
    THEN [format |-> "JPEG", quality |-> 100, subsampling |-> 0,
          optimize |-> FALSE, compression |-> None, compress_level |-> None,
          icc_profile |-> IF icc \notin {None, ""} THEN icc ELSE None,
          exif |-> IF exif \notin {None, ""} THEN exif ELSE None]
    ELSE IF suffix \in {TIF, TIFF}
    THEN [format |-> "TIFF", quality |-> None, subsampling |-> None,
          optimize |-> None, compression |-> "tiff_lzw",
          compress_level |-> None,
          icc_profile |-> IF icc \notin {None, ""} THEN icc ELSE None,
          exif |-> None]
    ELSE IF suffix = PNG
    THEN [format |-> "PNG", quality |-> None, subsampling |-> None,
          optimize |-> None, compression |-> None, compress_level |-> 1,
          icc_profile |-> IF icc \notin {None, ""} THEN icc ELSE None,
          exif |-> None]
    ELSE [format |-> "JPEG", quality |-> 100, subsampling |-> 0,
          optimize |-> FALSE, compression |-> None, compress_level |-> None,
          icc_profile |-> None, exif |-> None]

InitSave ==
    /\ svPc = "start"
    /\ svIn \in [src : SaveNames, out_dir : OutDirs,
                 icc : InfoBytes, exif : InfoBytes]
    /\ svWritten = <<>>
    /\ svReturned = None

\* out_path = save_with_quality_preserved(framed, src_image, src_path, out_dir)
\* framed.save either writes the file or raises
Save ==
    /\ svPc = "start"
    /\ LET out_path == <<svIn.out_dir, OutName(svIn.src)>>
           call == [path |-> out_path,
                    kwargs |-> SaveKwargs(Lower(Suffix(svIn.src)),
                                          svIn.icc, svIn.exif)]
       IN  \E raises \in BOOLEAN :
             /\ svWritten' = call
             /\ IF raises
                THEN svPc' = "raised" /\ UNCHANGED svReturned
                ELSE svPc' = "saved" /\ svReturned' = out_path
    /\ UNCHANGED svIn

NextSave == Save /\ UNCHANGED notSave

InitSpecSave ==
    IdleBatch /\ IdleWrap /\ IdleFrame /\ InitSave /\ IdleTitle /\ IdleDate
      /\ IdleGui

SpecSave == InitSpecSave /\ [][NextSave]_vars

----------------------------------------------------------------------------
(* read_title.  A file is missing, unreadable (reading it raises) or holds *)
(* data; of the data only the first match of _XMP_TITLE_RE matters: None    *)
(* when there is no match, else the text of group 1 as a tuple of tokens,   *)
(* a token being a character, a tag or an entity.                           *)

XmlTokens == {"i", " ", "\n", "<b>", "&amp;"}

\* Python's None where the other values are tuples of tokens
NoneT == <<None>>

\* longest matched text
MaxInner == 2

InnerTexts == UNION {[1..n -> XmlTokens] : n \in 0..MaxInner}

FileStates ==
    { [kind |-> "missing", inner |-> NoneT], [kind |-> "ioerror", inner |-> NoneT],
      [kind |-> "data", inner |-> NoneT] }
      \cup { [kind |-> "data", inner |-> t] : t \in InnerTexts }

\* re.sub(r"<[^>]+>", "", s)
RemoveTags(t) == SelectSeq(t, LAMBDA c : c # "<b>")

\* the chain of .replace() calls for the five entities
DecodeEntities(t) == [k \in 1..Len(t) |-> IF t[k] = "&amp;" THEN "&" ELSE t[k]]

\* _strip_xml_text(b): " ".join(s.split()).strip() after the two steps above
StripXmlText(b) == Join(SplitWords(DecodeEntities(RemoveTags(b)), <<>>, <<>>))

\* read_xmp_title_from_bytes(data), data given by its first match
ReadXmpTitleFromBytes(inner) ==
    IF inner = NoneT THEN NoneT
    ELSE LET title == StripXmlText(inner)
         IN  IF title # <<>> THEN title ELSE NoneT

\* the sidecar decides alone as soon as it exists and is readable
ReadTitleSidecarOnly(in) ==
    IF in.sidecar.kind = "data"
    THEN [value |-> ReadXmpTitleFromBytes(in.sidecar.inner), raised |-> FALSE,
          warnings |-> <<>>]
    ELSE [value |-> IF in.image.kind = "data"
                    THEN ReadXmpTitleFromBytes(in.image.inner) ELSE NoneT,
          raised |-> FALSE, warnings |-> <<>>]

\* read_title(path): both reads sit in their own try/except Exception
ReadTitle(in) ==
    LET side == IF in.sidecar.kind = "data"
                THEN ReadXmpTitleFromBytes(in.sidecar.inner) ELSE NoneT
        w1   == IF in.sidecar.kind = "ioerror" THEN <<"sidecar">> ELSE <<>>
        emb  == IF in.image.kind = "data"
                THEN ReadXmpTitleFromBytes(in.image.inner) ELSE NoneT
        w2   == IF in.image.kind # "data" THEN <<"embedded">> ELSE <<>>
    IN  IF side # NoneT
        THEN [value |-> side, raised |-> FALSE, warnings |-> w1]
        ELSE [value |-> emb, raised |-> FALSE, warnings |-> w1 \o w2]

InitTitle ==
    /\ tPc = "start"
    /\ tIn \in [sidecar : FileStates, image : FileStates]
    /\ tOut = <<>>

\* t = read_title(path)
ReadTitleCall ==
    /\ tPc = "start"
    /\ tOut' = ReadTitle(tIn)
    /\ tPc' = "done"
    /\ UNCHANGED tIn

NextTitle == ReadTitleCall /\ UNCHANGED notTitle

InitSpecTitle ==
    IdleBatch /\ IdleWrap /\ IdleFrame /\ IdleSave /\ InitTitle /\ IdleDate
      /\ IdleGui

SpecTitle == InitSpecTitle /\ [][NextTitle]_vars

----------------------------------------------------------------------------
(* read_exif_date.  piexif.load either raises (no file, not a JPEG/TIFF,   *)
(* broken data) or gives the "Exif" and "0th" blocks; a timestamp field is *)
(* absent or present with a raw value, a tuple of characters.               *)

DigitChars == <<"0", "1", "2", "3", "4", "5", "6", "7", "8", "9">>

Digits == {DigitChars[k] : k \in 1..10}

DigitVal(c) == (CHOOSE k \in 1..10 : DigitChars[k] = c) - 1

RECURSIVE DigitRun(_, _)
\* how many digits stand at position i and after it
DigitRun(s, i) ==
    IF i <= Len(s) /\ s[i] \in Digits THEN 1 + DigitRun(s, i + 1) ELSE 0

RECURSIVE WsRun(_, _)
WsRun(s, i) ==
    IF i <= Len(s) /\ s[i] \in Whitespace THEN 1 + WsRun(s, i + 1) ELSE 0

RECURSIVE Number(_, _, _)
\* int() of the n digits from position i
Number(s, i, n) ==
    IF n = 0 THEN 0 ELSE Number(s, i, n - 1) * 10 + DigitVal(s[i + n - 1])

\* "%Y:%m:%d %H:%M:%S"
Format == <<"Y", ":", "m", ":", "d", " ", "H", ":", "M", ":", "S">>

\* the digits a directive takes and the values its pattern admits
Widths(f) == IF f = "Y" THEN {4} ELSE {1, 2}

Ranges(f) ==
    CASE f = "Y" -> 0..9999
      [] f = "m" -> 1..12
      [] f = "d" -> 1..31
      [] f = "H" -> 0..23
      [] f = "M" -> 0..59
      [] f = "S" -> 0..61

RECURSIVE Strptime(_, _, _, _)
\* the fields <<Y, m, d, H, M, S>> of s read from position i against the
\* format from item k on, <<>> when s does not match or text remains
Strptime(s, i, k, acc) ==
    IF k > Len(Format)
    THEN IF i = Len(s) + 1 THEN acc ELSE <<>>
    ELSE LET f == Format[k]
         IN  IF f = ":"
             THEN IF i <= Len(s) /\ s[i] = ":"
                  THEN Strptime(s, i + 1, k + 1, acc) ELSE <<>>
             ELSE IF f = " "
             THEN LET n == WsRun(s, i)
                  IN  IF n >= 1 THEN Strptime(s, i + n, k + 1, acc) ELSE <<>>
             ELSE LET n == DigitRun(s, i)
                  IN  IF n \in Widths(f) /\ Number(s, i, n) \in Ranges(f)
                      THEN Strptime(s, i + n, k + 1,
                                    Append(acc, Number(s, i, n)))
                      ELSE <<>>

IsLeap(y) == y % 4 = 0 /\ (y % 100 # 0 \/ y % 400 = 0)

DaysIn(y, mo) ==
    IF mo = 2 THEN (IF IsLeap(y) THEN 29 ELSE 28)
    ELSE IF mo \in {4, 6, 9, 11} THEN 30 ELSE 31

\* the datetime constructor accepts the fields
ValidDateTime(f) ==
    f[1] >= 1 /\ f[3] <= DaysIn(f[1], f[2]) /\ f[6] <= 59

\* d.strftime("%Y-%m-%d")
Strftime(f) ==
    << DigitChars[((f[1] \div 1000) % 10) + 1],
       DigitChars[((f[1] \div 100) % 10) + 1],
       DigitChars[((f[1] \div 10) % 10) + 1], DigitChars[(f[1] % 10) + 1], "-",
       DigitChars[(f[2] \div 10) + 1], DigitChars[(f[2] % 10) + 1], "-",
       DigitChars[(f[3] \div 10) + 1], DigitChars[(f[3] % 10) + 1] >>

\* datetime.strptime(dt.strip(), ...).strftime(...), NoneT when it raises
ParseDate(raw) ==
    LET f == Strptime(Strip(raw), 1, 1, <<>>)
    IN  IF f = <<>> \/ ~ValidDateTime(f) THEN NoneT ELSE Strftime(f)

Absent == [present |-> FALSE, raw |-> <<>>]

RawValues ==
    { <<>>,
      <<"2", "0", "2", "1", ":", "0", "7", ":", "0", "4", " ", "1", "0",
         ":", "1", "5", ":", "0", "0">>,
      <<"2", "0", "1", "9", ":", "1", "2", ":", "3", "1", " ", "2", "3",
         ":", "5", "9", ":", "5", "9">>,
      <<" ", "2", "0", "2", "1", ":", "7", ":", "4", " ", " ", "1", "0",
         ":", "1", "5", ":", "0", "0", "\n">>,
      <<"2", "0", "2", "1", ":", "1", "3", ":", "0", "4", " ", "1", "0",
         ":", "1", "5", ":", "0", "0">>,
      <<"2", "0", "2", "1", ":", "0", "2", ":", "3", "0", " ", "1", "0",
         ":", "1", "5", ":", "0", "0">>,
      <<"2", "0", "2", "1", "-", "0", "7", "-", "0", "4", " ", "1", "0",
         ":", "1", "5", ":", "0", "0">>,
      <<"2", "0", "2", "1", ":", "0", "7", ":", "0", "4">>,
      <<" ", " ", " ", " ", ":", " ", " ", ":", " ", " ", " ", " ", " ",
         ":", " ", " ", ":", " ", " ">> }

Fields == {Absent} \cup { [present |-> TRUE, raw |-> r] : r \in RawValues }

\* `if not dt`: the key is missing or its value is empty
Falsy(field) == ~field.present \/ field.raw = <<>>

\* the fallback is consulted only when the first key is missing
ReadExifDateIfAbsent(in) ==
    IF in.file = "unreadable"
    THEN [value |-> NoneT, raised |-> FALSE, warned |-> TRUE]
    ELSE LET dt == IF ~in.original.present THEN in.fallback ELSE in.original
         IN  IF Falsy(dt)
             THEN [value |-> NoneT, raised |-> FALSE, warned |-> FALSE]
             ELSE [value |-> ParseDate(dt.raw), raised |-> FALSE,
                   warned |-> ParseDate(dt.raw) = NoneT]

\* read_exif_date(path): the whole body is inside try/except Exception
ReadExifDate(in) ==
    IF in.file = "unreadable"
    THEN [value |-> NoneT, raised |-> FALSE, warned |-> TRUE]
    ELSE LET dt == IF Falsy(in.original) THEN in.fallback ELSE in.original
         IN  IF Falsy(dt)
             THEN [value |-> NoneT, raised |-> FALSE, warned |-> FALSE]
             ELSE [value |-> ParseDate(dt.raw), raised |-> FALSE,
                   warned |-> ParseDate(dt.raw) = NoneT]

InitDate ==
    /\ dPc = "start"
    /\ dIn \in {[file |-> "unreadable", original |-> Absent, fallback |-> Absent]}
               \cup [file : {"loaded"}, original : Fields, fallback : Fields]
    /\ dOut = <<>>

\* date_str = read_exif_date(path)
ReadExifDateCall ==
    /\ dPc = "start"
    /\ dOut' = ReadExifDate(dIn)
    /\ dPc' = "done"
    /\ UNCHANGED dIn

NextDate == ReadExifDateCall /\ UNCHANGED notDate

InitSpecDate ==
    IdleBatch /\ IdleWrap /\ IdleFrame /\ IdleSave /\ IdleTitle /\ InitDate
      /\ IdleGui

SpecDate == InitSpecDate /\ [][NextDate]_vars

----------------------------------------------------------------------------
(* FrameApp (frame_gui.py).  Tk runs _run, _start_metadata_scan and         *)
(* _poll_messages on the main thread, one at a time; the batch worker and   *)
(* the scan worker are threads that talk to it only through self.messages.  *)
(* A step of a thread is taken up to its next put on the queue.             *)

QUEUE_MESSAGES_PER_TICK == 120

\* most calls of _run in a behaviour
MaxClicks == 2

\* how many files a run may enumerate
GuiTotals == {0, 1, 2}

\* most scan threads in a behaviour
MaxScans == 1

Msg(type, a, b) == [type |-> type, a |-> a, b |-> b]

\* Thread.is_alive() of the k-th batch worker
IsAlive(k) == gThreads[k].pos # "dead"

RunBlockedNever == FALSE

\* if self.worker_thread and self.worker_thread.is_alive(): return
RunBlocked == gWorkerRef # 0 /\ IsAlive(gWorkerRef)

\* if self.scan_thread and self.scan_thread.is_alive(): return
ScanBlocked == gScan \in {"listing", "reading", "closing"}

InitGui ==
    /\ gPc = "live"
    /\ gThreads = <<>>
    /\ gWorkerRef = 0
    /\ gQueue = <<>>
    /\ gRunBtn = "normal"
    /\ gLog = 0
    /\ gTrace = <<>>
    /\ gRunCalls = 0
    /\ gLastRun = "none"
    \* __init__ ends with _start_metadata_scan()
    /\ \E valid \in BOOLEAN :
         IF valid
         THEN gScan = "listing" /\ gScanBtn = "disabled"
                /\ gStatus = "Reading metadata..." /\ gScans = 1
         ELSE gScan = "none" /\ gScanBtn = "normal"
                /\ gStatus = "Invalid input folder" /\ gScans = 0

\* _run, called by Tk for a click on the enabled Run button
RunClick ==
    /\ gPc = "live"
    /\ gRunBtn = "normal"
    /\ gRunCalls < MaxClicks
    /\ gRunCalls' = gRunCalls + 1
    /\ UNCHANGED <<gPc, gScan, gQueue, gTrace, gScans>>
    /\ IF RunBlocked
       THEN /\ gLastRun' = "ignored"
            /\ UNCHANGED <<gThreads, gWorkerRef, gRunBtn, gScanBtn, gStatus,
                           gLog>>
       ELSE \E valid \in BOOLEAN :
              IF ~valid
              THEN \* showerror for the input folder or for a setting
                   /\ gLastRun' = "invalid"
                   /\ UNCHANGED <<gThreads, gWorkerRef, gRunBtn, gScanBtn,
                                  gStatus, gLog>>
              ELSE /\ gLastRun' = "started"
                   /\ gLog' = gLog + 2
                   /\ gStatus' = "Running..."
                   /\ gRunBtn' = "disabled"
                   /\ gScanBtn' = "disabled"
                   /\ gThreads' = Append(gThreads,
                                    [pos |-> "begin", total |-> 0, done |-> 0])
                   /\ gWorkerRef' = Len(gThreads) + 1

\* _worker up to process_folder's first progress_cb, or to the error message
\* when process_folder raises (the input folder is gone, out_dir is a file)
WorkerBegin(k) ==
    /\ gThreads[k].pos = "begin"
    /\ \E raises \in BOOLEAN, n \in GuiTotals :
         IF raises
         THEN /\ gThreads' = [gThreads EXCEPT ![k].pos = "closing"]
              /\ gQueue' = Append(gQueue, Msg("error", k, 0))
         ELSE /\ gThreads' = [gThreads EXCEPT ![k].pos = "loop",
                                              ![k].total = n]
              /\ gQueue' = Append(gQueue, Msg("progress", 0, n))
    /\ UNCHANGED <<gPc, gWorkerRef, gScan, gRunBtn, gScanBtn, gStatus, gLog,
                   gTrace, gRunCalls, gLastRun, gScans>>

\* one iteration of process_folder's loop inside the worker: log_cb with the
\* Saved or the ERROR line, then progress_cb
WorkerFile(k) ==
    /\ gThreads[k].pos = "loop"
    /\ gThreads[k].done < gThreads[k].total
    /\ gThreads' = [gThreads EXCEPT ![k].done = @ + 1]
    /\ gTrace' = Append(gTrace, <<k, gThreads[k].done + 1>>)
    /\ gQueue' = gQueue \o << Msg("log", k, 0),
                             Msg("progress", gThreads[k].done + 1,
                                 gThreads[k].total) >>
    /\ UNCHANGED <<gPc, gWorkerRef, gScan, gRunBtn, gScanBtn, gStatus, gLog,
                   gRunCalls, gLastRun, gScans>>

\* the summary line and self.messages.put(("done", ...))
WorkerFinish(k) ==
    /\ gThreads[k].pos = "loop"
    /\ gThreads[k].done = gThreads[k].total
    /\ gThreads' = [gThreads EXCEPT ![k].pos = "closing"]
    /\ gQueue' = gQueue \o << Msg("log", k, 0), Msg("done", k, 0) >>
    /\ UNCHANGED <<gPc, gWorkerRef, gScan, gRunBtn, gScanBtn, gStatus, gLog,
                   gTrace, gRunCalls, gLastRun, gScans>>

\* _worker returns and the thread ends
WorkerExit(k) ==
    /\ gThreads[k].pos = "closing"
    /\ gThreads' = [gThreads EXCEPT ![k].pos = "dead"]
    /\ UNCHANGED <<gPc, gWorkerRef, gScan, gQueue, gRunBtn, gScanBtn, gStatus,
                   gLog, gTrace, gRunCalls, gLastRun, gScans>>

\* _start_metadata_scan, called by Tk for a click on the enabled Load List
\* button or, whatever the button's state, by _browse_input
ScanClick ==
    /\ gPc = "live"
    /\ \E browse \in BOOLEAN : browse \/ gScanBtn = "normal"
    /\ gScans < MaxScans
    /\ UNCHANGED <<gPc, gThreads, gWorkerRef, gQueue, gRunBtn, gLog, gTrace,
                   gRunCalls, gLastRun>>
    /\ IF ScanBlocked
       THEN UNCHANGED <<gScan, gScanBtn, gStatus, gScans>>
       ELSE \E valid \in BOOLEAN :
              IF valid
              THEN /\ gScan' = "listing"
                   /\ gScanBtn' = "disabled"
                   /\ gStatus' = "Reading metadata..."
                   /\ gScans' = gScans + 1
              ELSE /\ gStatus' = "Invalid input folder"
                   /\ UNCHANGED <<gScan, gScanBtn, gScans>>

\* _scan_worker: the listing, then the rows, or an exception on the way
ScanStep ==
    /\ gScan \in {"listing", "reading"}
    /\ \E raises \in BOOLEAN :
         IF raises
         THEN gScan' = "closing" /\ gQueue' = Append(gQueue, Msg("meta_error", 0, 0))
         ELSE IF gScan = "listing"
         THEN gScan' = "reading" /\ gQueue' = Append(gQueue, Msg("meta_total", 0, 0))
         ELSE gScan' = "closing" /\ gQueue' = Append(gQueue, Msg("meta_done", 0, 0))
    /\ UNCHANGED <<gPc, gThreads, gWorkerRef, gRunBtn, gScanBtn, gStatus, gLog,
                   gTrace, gRunCalls, gLastRun, gScans>>

ScanExit ==
    /\ gScan = "closing"
    /\ gScan' = "dead"
    /\ UNCHANGED <<gPc, gThreads, gWorkerRef, gQueue, gRunBtn, gScanBtn,
                   gStatus, gLog, gTrace, gRunCalls, gLastRun, gScans>>

\* one branch of the if/elif chain of _poll_messages, on the widgets
\* ui = [run, scan, status, log]
HandleMsg(ui, m) ==
    CASE m.type = "log" -> [ui EXCEPT !.log = @ + 1]
      [] m.type = "progress" ->
           [ui EXCEPT !.status = IF m.b <= 0 THEN "No files found"
                                 ELSE "Processing"]
      [] m.type = "done" ->
           [ui EXCEPT !.status = "Done", !.run = "normal", !.scan = "normal"]
      [] m.type = "error" ->
           [ui EXCEPT !.status = "Error", !.run = "normal", !.scan = "normal"]
      [] m.type = "meta_total" -> ui
      [] m.type = "meta_done" ->
           [ui EXCEPT !.status = "Metadata loaded", !.scan = "normal"]
      [] m.type = "meta_error" ->
           [ui EXCEPT !.status = "Metadata read failed", !.scan = "normal",
                      !.log = @ + 1]

RECURSIVE HandleMsgs(_, _, _)
\* the while loop of _poll_messages over the first n messages
HandleMsgs(ui, msgs, n) ==
    IF n = 0 \/ msgs = <<>> THEN ui
    ELSE HandleMsgs(HandleMsg(ui, Head(msgs)), Tail(msgs), n - 1)

\* _poll_messages, run by root.after while messages wait
PollMessages ==
    /\ gPc = "live"
    /\ gQueue # <<>>
    /\ LET n  == IF Len(gQueue) < QUEUE_MESSAGES_PER_TICK THEN Len(gQueue)
                 ELSE QUEUE_MESSAGES_PER_TICK
           ui == HandleMsgs([run |-> gRunBtn, scan |-> gScanBtn,
                             status |-> gStatus, log |-> gLog], gQueue, n)
       IN  /\ gQueue' = SubSeq(gQueue, n + 1, Len(gQueue))
           /\ gRunBtn' = ui.run
           /\ gScanBtn' = ui.scan
           /\ gStatus' = ui.status
           /\ gLog' = ui.log
    /\ UNCHANGED <<gPc, gThreads, gWorkerRef, gScan, gTrace, gRunCalls,
                   gLastRun, gScans>>

NextGui ==
    \/ RunClick /\ UNCHANGED notGui
    \/ \E k \in 1..Len(gThreads) : WorkerBegin(k) /\ UNCHANGED notGui
    \/ \E k \in 1..Len(gThreads) : WorkerFile(k) /\ UNCHANGED notGui
    \/ \E k \in 1..Len(gThreads) : WorkerFinish(k) /\ UNCHANGED notGui
    \/ \E k \in 1..Len(gThreads) : WorkerExit(k) /\ UNCHANGED notGui
    \/ ScanClick /\ UNCHANGED notGui
    \/ ScanStep /\ UNCHANGED notGui
    \/ ScanExit /\ UNCHANGED notGui
    \/ PollMessages /\ UNCHANGED notGui

InitSpecGui ==
    IdleBatch /\ IdleWrap /\ IdleFrame /\ IdleSave /\ IdleTitle /\ IdleDate
      /\ InitGui

SpecGui == InitSpecGui /\ [][NextGui]_vars

----------------------------------------------------------------------------
(* Claims about process_folder, checked under Spec *)

Processed == DOMAIN outcome
Succeeded == {p \in Processed : outcome[p] = "none"}
Enumerated == {files[i] : i \in 1..Len(files)}
HasOverride(p) == InPath(p) \in DOMAIN overrides

\* C1: an exception raised while opening, composing or saving one file never
\* leaves process_folder, and a call that returns has processed every
\* enumerated file, returns (S, N) with S the number of files processed
\* without an exception and N the number enumerated, and has written an
\* output under the output name of each of the S files.
C1_FailureIsolated ==
    /\ error # "FileError"
    /\ pc = "returned" =>
         /\ Processed = Enumerated
         /\ result = <<Cardinality(Succeeded), Len(files)>>
         /\ \A p \in Succeeded : OutName(p) \in DOMAIN outFiles

C1_Witness ==
    /\ pc = "returned"
    /\ result = <<1, 2>>
    /\ outcome[files[1]] = "open"
    /\ outcome[files[2]] = "none"
    /\ outFiles[OutName(files[2])].src = files[2]

\* the progress events of a run over the enumerated files, first n of them
ExpectedProgress(n) ==
    [i \in 1..n |-> IF i = 1 THEN <<0, total, None>>
                    ELSE <<i - 1, total, files[i - 1]>>]

\* C2: with a progress callback, the calls made so far are always the first
\* calls of (0, N, None), (1, N, file 1), ..., (N, N, file N); the first is
\* made before any file is processed, one more after each file whether it
\* succeeded or failed, and a call that returns has made exactly N + 1.
C2_ProgressCalls ==
    /\ ~hasProgress => progCalls = <<>>
    /\ hasProgress =>
         /\ Len(progCalls) <= Len(files) + 1
         /\ progCalls = ExpectedProgress(Len(progCalls))
         /\ pc = "loop" => Len(progCalls) = idx /\ Cardinality(Processed) = idx - 1
         /\ pc = "returned" => Len(progCalls) = Len(files) + 1 /\ total = Len(files)

C2_Witness ==
    /\ pc = "returned"
    /\ hasProgress
    /\ Len(progCalls) = 3
    /\ outcome[files[1]] = "save"
    /\ outcome[files[2]] = "none"

\* C3: when in_dir is missing or is not a directory, the call ends with the
\* invalid-input error and nothing else has happened: out_dir is as it was,
\* no callback was called, nothing was printed, read or written.
C3_InvalidInputFailsFast ==
    (inDirKind \in {"missing", "file"} /\ pc # "start") =>
        /\ pc = "raised"
        /\ error = "ValueError"
        /\ outDirKind = outDir0
        /\ ~fsTouched
        /\ progCalls = <<>> /\ logCalls = <<>> /\ stdout = <<>> /\ logger = <<>>
        /\ metaRead = <<>> /\ handed = <<>> /\ outFiles = outFiles0

C3_Witness ==
    /\ pc = "raised"
    /\ error = "ValueError"
    /\ inDirKind = "file"
    /\ outDir0 = "missing"
    /\ hasProgress /\ hasLog
    /\ entries # {}

\* C4 (as claimed): the only exception that leaves process_folder is the
\* invalid-input error for a missing or non-directory in_dir.
C4_OnlyInvalidInputPropagates ==
    pc = "raised" => (error = "ValueError" /\ inDirKind \in {"missing", "file"})

\* C5: a processed file with an entry in metadata_overrides under its full
\* path has no metadata read and, when the compositor is reached, is handed
\* exactly the override pair; a file without an entry has its metadata read
\* and is handed what was read.
C5_OverrideReplacesBoth ==
    \A p \in Processed :
        IF HasOverride(p)
        THEN /\ p \notin DOMAIN metaRead
             /\ p \in DOMAIN handed => handed[p] = overrides[InPath(p)]
        ELSE /\ p \in DOMAIN metaRead
             /\ p \in DOMAIN handed => handed[p] = metaRead[p]

C5_Witness ==
    /\ pc = "returned"
    /\ Len(files) = 2
    /\ \E p \in DOMAIN handed :
         HasOverride(p) /\ overrides[InPath(p)] = <<"", "">> /\ handed[p] = <<"", "">>
    /\ \E q \in DOMAIN handed :
         ~HasOverride(q) /\ handed[q] = <<"2021-07-04", "My Trip">>

\* C6 (as claimed): with a log callback, a call that returns has given it
\* one line per file in processing order, a Saved line for each file counted
\* as a success and an ERROR line for each other file, then one summary line
\* with processed N, succeeded S, failed N - S; the summary is the last line
\* and comes after the last progress event.
C6_LogLines ==
    /\ (pc = "returned" /\ hasLog) =>
         /\ Len(logCalls) = Len(files) + 1
         /\ \A i \in 1..Len(files) :
              logCalls[i] = IF outcome[files[i]] = "none"
                            THEN SavedLine(files[i]) ELSE ErrorLine(files[i])
         /\ Cardinality({i \in 1..Len(files) : logCalls[i].kind = "Saved"}) = result[1]
         /\ Cardinality({i \in 1..Len(files) : logCalls[i].kind = "ERROR"})
              = result[2] - result[1]
         /\ logCalls[Len(logCalls)] = DoneLine(result[2], result[1])
    /\ (\E i \in 1..Len(logCalls) : logCalls[i].kind = "Done") =>
         /\ pc \in {"returned", "raised"}
         /\ logCalls[Len(logCalls)].kind = "Done"
         /\ hasProgress => Len(progCalls) = Len(files) + 1

\* the Saved lines of the files of fs that succeeded, in order
RECURSIVE SavedLinesOf(_)
SavedLinesOf(fs) ==
    IF fs = <<>> THEN <<>>
    ELSE (IF outcome[Head(fs)] = "none" THEN <<SavedLine(Head(fs))>> ELSE <<>>)
            \o SavedLinesOf(Tail(fs))

\* C7 (as claimed): without a log callback, the Saved line of every saved
\* file, the error line of every failed file and the summary line are on
\* standard output.
C7_AllLinesOnStdout ==
    (pc = "returned" /\ ~hasLog) =>
        /\ \A p \in Succeeded : \E i \in 1..Len(stdout) : stdout[i] = SavedLine(p)
        /\ \A p \in Processed \ Succeeded :
              \E i \in 1..Len(stdout) : /\ stdout[i].kind \in {"ERROR", "Failed"}
                                        /\ stdout[i].file = p
        /\ stdout[Len(stdout)] = DoneLine(total, success)

\* C7 (amended): without a log callback, standard output receives the Saved
\* line of every saved file, in processing order, then the summary line, and
\* nothing else; the message of a failed file goes to the module logger only.
C7_SavedAndSummaryOnStdout ==
    /\ ~hasLog => logCalls = <<>>
    /\ (pc = "returned" /\ ~hasLog) =>
         /\ stdout = Append(SavedLinesOf(files), DoneLine(total, success))
         /\ \A p \in Processed \ Succeeded :
              /\ \E i \in 1..Len(logger) : logger[i] = FailMsg(p)
              /\ \A i \in 1..Len(stdout) : stdout[i].kind = "Done" \/ stdout[i].file # p

C7_Witness ==
    /\ pc = "returned"
    /\ ~hasLog
    /\ Len(files) = 2
    /\ outcome[files[1]] = "none"
    /\ outcome[files[2]] = "open"
    /\ Len(stdout) = 2
    /\ logger = <<FailMsg(files[2])>>

----------------------------------------------------------------------------
(* Claims about wrap_text, checked under SpecWrap *)

\* the characters of s that are not whitespace, in order
NonWhitespace(s) == SelectSeq(s, LAMBDA c : c \notin Whitespace)

\* the concatenation of the lines
RECURSIVE Concat(_)
Concat(lines) ==
    IF lines = <<>> THEN <<>> ELSE Head(lines) \o Concat(Tail(lines))

\* C8: for max_width > 0, every returned line measures at most max_width
\* unless it is a single character that alone measures more, and the
\* non-whitespace characters of the lines, read in order, are those of the
\* text: none lost, none duplicated, none moved.
C8_LinesFit ==
    (wPc \in {"wrapped", "rewrapped"} /\ wWidth > 0) =>
        /\ \A k \in 1..Len(wLines) :
             \/ TextLength(wLines[k], wFont) <= wWidth
             \/ /\ Len(wLines[k]) = 1
                /\ TextLength(wLines[k], wFont) > wWidth
        /\ NonWhitespace(Concat(wLines)) = NonWhitespace(wText)

C8_Witness ==
    /\ wPc = "wrapped"
    /\ wWidth = 2
    /\ Len(wLines) = 3
    /\ \E k \in 1..3 : Len(wLines[k]) = 1 /\ TextLength(wLines[k], wFont) > wWidth
    /\ \E k \in 1..3 : Len(wLines[k]) = 2

\* C9: wrapping the lines of wrap_text(T, font, W), joined with single
\* spaces, with the same font and W gives the same lines again.
C9_Idempotent ==
    wPc = "rewrapped" => wAgain = wLines

C9_Witness ==
    /\ wPc = "rewrapped"
    /\ wWidth = 3
    /\ Len(wLines) >= 2
    /\ wAgain = wLines
    /\ Join(wLines) # wText
    /\ \E k \in 1..Len(wLines) : Len(wLines[k]) >= 3

----------------------------------------------------------------------------
(* Claims about add_frame_date_title, checked under SpecFrame *)

\* size of the source image once its orientation is applied (img.size after
\* exif_transpose), from the raw size and the EXIF orientation
SourceSize ==
    IF fIn.orientation \in {5, 6, 7, 8}
    THEN <<fIn.size[2], fIn.size[1]>> ELSE fIn.size

\* C10: the bottom band is max(bottom_extra_px, content_h) high: never less
\* than bottom_extra_px, equal to it exactly when content_h <= bottom_extra_px,
\* and the canvas is source_width + 2*border_px wide and
\* source_height + 2*border_px + actual_bottom_extra high.
C10_BottomBand ==
    fPc = "framed" =>
        /\ fOut.actual_bottom_extra >= fIn.bottom_extra_px
        /\ fOut.actual_bottom_extra >= fOut.content_h
        /\ fOut.actual_bottom_extra \in {fIn.bottom_extra_px, fOut.content_h}
        /\ (fOut.actual_bottom_extra = fIn.bottom_extra_px)
              <=> (fOut.content_h <= fIn.bottom_extra_px)
        /\ fOut.canvas = << SourceSize[1] + 2 * fIn.border_px,
                            SourceSize[2] + 2 * fIn.border_px
                               + fOut.actual_bottom_extra >>

C10_Witness ==
    /\ fPc = "framed"
    /\ fIn.bottom_extra_px = 10
    /\ fOut.content_h > 10
    /\ fOut.actual_bottom_extra = fOut.content_h
    /\ Len(fOut.title_lines) >= 2
    /\ fIn.orientation = 6
    /\ fIn.border_px = 80

\* the last text drawn
LastDraw == fOut.draws[Len(fOut.draws)]

\* C16: drawn text stays inside the bottom band: the first line starts at or
\* below the bottom edge of the pasted image, and the bottom of every line,
\* the last one included, is at most
\* border_px + source_height + actual_bottom_extra, border_px above the
\* bottom of the canvas.
C16_TextInsideBand ==
    (fPc = "framed" /\ fOut.draws # <<>>) =>
        /\ fOut.draws[1].y >= fIn.border_px + SourceSize[2]
        /\ \A k \in 1..Len(fOut.draws) :
             /\ fOut.draws[k].y >= fOut.draws[1].y
             /\ fOut.draws[k].y + fOut.draws[k].h <= LastDraw.y + LastDraw.h
        /\ LastDraw.y + LastDraw.h
             <= fIn.border_px + SourceSize[2] + fOut.actual_bottom_extra
        /\ fOut.canvas[2] - (LastDraw.y + LastDraw.h) >= fIn.border_px

\* a date and a two-line title that need more room than bottom_extra_px
C16_Witness ==
    /\ fPc = "framed"
    /\ Len(fOut.draws) = 3
    /\ fOut.content_h > fIn.bottom_extra_px
    /\ fIn.bottom_extra_px = 12
    /\ fIn.border_px = 80
    /\ LastDraw.y + LastDraw.h < fIn.border_px + SourceSize[2]
                                   + fOut.actual_bottom_extra

\* str.strip() leaves nothing
Blank(t) == \A k \in 1..Len(t) : t[k] \in Whitespace

\* C17: with the date and the title both empty or whitespace-only nothing is
\* drawn and the band is exactly bottom_extra_px high, content_h (top offset
\* plus half of it) not exceeding bottom_extra_px.
C17_EmptyTextsKeepBand ==
    (fPc = "framed" /\ Blank(fIn.date_text) /\ Blank(fIn.title)) =>
        /\ fOut.draws = <<>>
        /\ fOut.content_h = fOut.top_offset + fOut.top_offset \div 2
        /\ fOut.content_h <= fIn.bottom_extra_px
        /\ fOut.actual_bottom_extra = fIn.bottom_extra_px
        /\ fOut.canvas[2] = SourceSize[2] + 2 * fIn.border_px
                              + fIn.bottom_extra_px

C17_Witness ==
    /\ fPc = "framed"
    /\ fIn.date_text = <<" ">>
    /\ fIn.title = <<"\n", " ">>
    /\ fIn.bottom_extra_px = 12
    /\ fOut.content_h = 3
    /\ fOut.canvas[2] = SourceSize[2] + 12

\* x/100 rounded to the nearest integer, a tie going up
RoundHalfUp(x) == (x + 50) \div 100

\* x/100 rounded to the nearest integer, a tie going to the even neighbour
RoundHalfEven(x) ==
    IF x % 100 = 50 /\ (x \div 100) % 2 = 0 THEN x \div 100
    ELSE RoundHalfUp(x)

\* C18 (as stated): gap = max(4, round(0.35 * title font size)) and
\* top_offset = max(0, round(0.18 * bottom_extra_px)), round being rounding
\* to the nearest integer (either way at a tie).
C18_GapAndOffsetRounded ==
    fPc = "framed" =>
        /\ fOut.gap \in { Max(4, RoundHalfUp(35 * fIn.font_size_title)),
                          Max(4, RoundHalfEven(35 * fIn.font_size_title)) }
        /\ fOut.top_offset \in { Max(0, RoundHalfUp(18 * fIn.bottom_extra_px)),
                                 Max(0, RoundHalfEven(18 * fIn.bottom_extra_px)) }

\* C18 (amended): both products are truncated, not rounded: the gap is
\* max(4, floor(0.35 * size)), one less than that floor only where 0.35 * size
\* is a whole number that the floating-point product misses from below, and
\* the top offset is max(0, floor(0.18 * bottom_extra_px)).
C18_GapAndOffsetTruncated ==
    fPc = "framed" =>
        /\ fOut.gap \in { Max(4, (35 * fIn.font_size_title) \div 100),
                          Max(4, (35 * fIn.font_size_title) \div 100 - 1) }
        /\ (35 * fIn.font_size_title) % 100 # 0 =>
               fOut.gap = Max(4, (35 * fIn.font_size_title) \div 100)
        /\ fOut.top_offset = Max(0, (18 * fIn.bottom_extra_px) \div 100)

C18_Witness ==
    /\ fPc = "framed"
    /\ fIn.font_size_title = 13
    /\ fOut.gap = 4
    /\ fIn.bottom_extra_px = 10
    /\ fOut.top_offset = 1


----------------------------------------------------------------------------
(* Claims about save_with_quality_preserved, checked under SpecSave *)

\* the canonical extension of the format family of a lower-cased extension
CanonicalExt(ext) ==
    CASE ext = <<".", "j", "p", "g">>           -> <<".", "j", "p", "g">>
      [] ext = <<".", "j", "p", "e", "g">>      -> <<".", "j", "p", "g">>
      [] ext = <<".", "t", "i", "f">>           -> <<".", "t", "i", "f">>
      [] ext = <<".", "t", "i", "f", "f">>      -> <<".", "t", "i", "f">>
      [] ext = <<".", "p", "n", "g">>           -> <<".", "p", "n", "g">>
      [] OTHER                                  -> <<".", "j", "p", "g">>

\* C11: the file written is named after the source's base name with the
\* canonical extension of the family of its lower-cased extension (.jpg and
\* .jpeg give .jpg, .tif and .tiff give .tif, .png gives .png, anything
\* else gives .jpg), it lies in out_dir, and the returned path is that path.
C11_CanonicalOutputName ==
    /\ svPc \in {"saved", "raised"} =>
         /\ svWritten.path[1] = svIn.out_dir
         /\ svWritten.path[2] =
              Stem(svIn.src) \o CanonicalExt(Lower(Suffix(svIn.src)))
    /\ svPc = "saved" => svReturned = svWritten.path
    /\ svPc = "raised" => svReturned = None

C11_Witness ==
    /\ svPc = "saved"
    /\ svIn.src = <<"c", ".", "P", "N", "G">>
    /\ svIn.out_dir = "o2"
    /\ svReturned = <<"o2", <<"c", ".", "p", "n", "g">> >>


----------------------------------------------------------------------------
(* Claims about read_title, checked under SpecTitle *)

\* the non-empty title a file yields, None when it is missing, unreadable,
\* has no dc:title or has one without text
TitleIn(f) ==
    IF f.kind = "data" /\ f.inner # NoneT /\ StripXmlText(f.inner) # <<>>
    THEN StripXmlText(f.inner) ELSE NoneT

\* C12: read_title gives the sidecar's title when the sidecar yields a
\* non-empty one, otherwise the embedded title when that is non-empty,
\* otherwise None; it never raises.
C12_TitlePriority ==
    tPc = "done" =>
        /\ ~tOut.raised
        /\ tOut.value # <<>>
        /\ tOut.value =
             IF TitleIn(tIn.sidecar) # NoneT THEN TitleIn(tIn.sidecar)
             ELSE IF TitleIn(tIn.image) # NoneT THEN TitleIn(tIn.image)
             ELSE NoneT

C12_Witness ==
    /\ tPc = "done"
    /\ tIn.sidecar = [kind |-> "data", inner |-> <<"<b>", "\n">>]
    /\ tIn.image = [kind |-> "data", inner |-> <<"i", "&amp;">>]
    /\ tOut.value = <<"i", "&">>


----------------------------------------------------------------------------
(* Claims about read_exif_date, checked under SpecDate *)

Date20210704 == <<"2", "0", "2", "1", "-", "0", "7", "-", "0", "4">>

\* raw values that are not a timestamp
Malformed ==
    { r \in RawValues : r # <<>> /\ ParseDate(r) = NoneT }

\* what the timestamp field `field` alone gives
DateOf(field) == IF field.present THEN ParseDate(field.raw) ELSE NoneT

\* the parts of C13 about one value: the example of the specification, the
\* malformed values, the unreadable file, and no raise
DateExamples ==
    /\ ~dOut.raised
    /\ dIn.file = "unreadable" => dOut.value = NoneT
    /\ ParseDate(<<"2", "0", "2", "1", ":", "0", "7", ":", "0", "4", " ", "1", "0", ":", "1", "5", ":", "0", "0">>) = Date20210704
    /\ Cardinality(Malformed) = 5
    /\ \A r \in Malformed :
         /\ dIn.original = [present |-> TRUE, raw |-> r] => dOut.value = NoneT
         /\ dIn.original = Absent /\ dIn.fallback = [present |-> TRUE, raw |-> r]
              => dOut.value = NoneT

----------------------------------------------------------------------------
(* Claims about the enumeration of process_folder, checked under Spec *)

\* the names of the regular files directly in in_dir with a listed extension
ImageFileNames ==
    {e.name : e \in {x \in entries : ~x.isDir /\ Lower(Suffix(x.name)) \in exts}}

\* C14: the batch processes exactly the regular files directly inside in_dir
\* whose extension is listed (case-insensitively), never a directory entry;
\* total is their number and they are taken in ascending filename order.
C14_ExactlyTheImageFiles ==
    pc = "returned" =>
        /\ files = Sorted(ImageFileNames)
        /\ result[2] = Cardinality(ImageFileNames)
        /\ Processed = ImageFileNames

----------------------------------------------------------------------------
(* Claims about the output directory after a batch, checked under Spec *)

\* the file under the output name of p is what an interrupted write of p left
LeftIncomplete(p) ==
    /\ OutName(p) \in DOMAIN outFiles
    /\ outFiles[OutName(p)].src = p
    /\ ~outFiles[OutName(p)].complete

\* C15: a batch with failures still returns its counts, and no failed file,
\* a failure in the middle of the write included, leaves an incomplete file
\* under its output name.
C15_NoPartialOutputs ==
    pc = "returned" =>
        /\ result = <<Cardinality(Succeeded), Len(files)>>
        /\ \A p \in Processed \ Succeeded : ~LeftIncomplete(p)

\* where p stands in `files`
Position(p) == CHOOSE i \in 1..Len(files) : files[i] = p

\* q was processed after p and its save opened the same output file
WroteLater(q, p) ==
    /\ OutName(q) = OutName(p)
    /\ Position(q) > Position(p)
    /\ OutName(q) \in DOMAIN outFiles
    /\ outFiles[OutName(q)].src = q

\* C19: outputs are overwritten without confirmation.  Every source that was
\* processed without an exception counts as a success, also when several
\* share an output name; each output name holds one file, the frame of the
\* last source saved under it, whatever out_dir held under that name before
\* the batch or from an earlier source.
C19_LaterSourceOverwrites ==
    pc = "returned" =>
        /\ result = <<Cardinality(Succeeded), Len(files)>>
        /\ \A p \in Succeeded :
             \/ \E q \in Processed : WroteLater(q, p)
             \/ /\ OutName(p) \in DOMAIN outFiles
                /\ outFiles[OutName(p)] = [src |-> p, complete |-> TRUE]
        /\ \A o \in DOMAIN outFiles0 :
             \/ o \in DOMAIN outFiles /\ outFiles[o] = outFiles0[o]
                  /\ \A p \in Succeeded : OutName(p) # o
             \/ o \in DOMAIN outFiles /\ outFiles[o].src \in Processed

\* a.jpeg and a.jpg both succeed while out_dir already holds an a.jpg
C19_Witness ==
    /\ pc = "returned"
    /\ files = << <<"a", ".", "j", "p", "e", "g">>, <<"a", ".", "j", "p", "g">> >>
    /\ Succeeded = Enumerated
    /\ result = <<2, 2>>
    /\ outFiles0 # <<>>
    /\ DOMAIN outFiles = { <<"a", ".", "j", "p", "g">> }
    /\ outFiles[<<"a", ".", "j", "p", "g">>]
         = [src |-> <<"a", ".", "j", "p", "g">>, complete |-> TRUE]

----------------------------------------------------------------------------
(* Claims about the GUI, checked under SpecGui *)

AliveWorkers == {k \in 1..Len(gThreads) : IsAlive(k)}

\* the files of every run are taken in order by the worker of that run, and
\* a run takes its first file only after the run before it took its last
Sequential ==
    \A i \in 1..(Len(gTrace) - 1) :
        \/ gTrace[i + 1] = <<gTrace[i][1], gTrace[i][2] + 1>>
        \/ /\ gTrace[i + 1][2] = 1
           /\ gTrace[i + 1][1] > gTrace[i][1]
           /\ gTrace[i][2] = gThreads[gTrace[i][1]].total

\* a call of _run while a batch worker is alive leaves everything as it was
RunWhileAliveIsNoOp ==
    (gRunCalls' # gRunCalls /\ AliveWorkers # {}) =>
        UNCHANGED <<gThreads, gWorkerRef, gScan, gQueue, gRunBtn, gScanBtn,
                    gStatus, gLog, gTrace>>

\* C20: batch runs never overlap: at most one batch worker thread is alive at
\* any moment, a Run request made while one is alive starts no worker and
\* changes nothing, and the files of each run are processed one after the
\* other by the one worker of that run.
C20_SingleWorker ==
    /\ [](Cardinality(AliveWorkers) <= 1 /\ Sequential)
    /\ [][RunWhileAliveIsNoOp]_vars

\* the worker has put its "done" message, the poll has enabled the Run
\* button again, and a Run request arrived while the thread was still alive
C20_Witness ==
    /\ Len(gThreads) = 1
    /\ IsAlive(1)
    /\ gLastRun = "ignored"
    /\ gRunCalls = 2
    /\ gThreads[1].total = 2
    /\ Len(gTrace) = 2

====
